---- MODULE Spec2Model ----
(***************************************************************************)
(* A model of the servier-de drug pipeline:                                *)
(*   script/helper.py      text/date cleaning, identity assignment, the    *)
(*                         drug graph builder and the two graph queries    *)
(*   custom_operator.py    the bucket readers/writers and the operators    *)
(*   servier_pipeline.py   the DAG: the order of the four tasks            *)
(*                                                                         *)
(* Text values (titles, journals, drug names) are sequences of one-letter  *)
(* strings, so that searching and stripping are computed letter by letter. *)
(* Ids and dates are tokens.  A pandas table is a sequence of rows; a      *)
(* Python dict is a sequence of entries with distinct keys, in insertion   *)
(* order.                                                                  *)
(***************************************************************************)
EXTENDS Integers, Sequences, FiniteSets, TLC

VARIABLES
    pc,                  \* position of the caller / of the DAG run
    drugs_df,            \* create_drug_graph: the drugs table
    pubmed_df,           \* create_drug_graph: the publications table
    clinical_trials_df,  \* create_drug_graph: the trials table
    drug_graph,          \* the graph built, or given to the queries
    answer,              \* what the last call returned
    df,                  \* create_hashed_uuid_for_nan: the caller's tables
    result_df,           \* create_hashed_uuid_for_nan: the tables returned
    bucket,              \* the S3 bucket "airflow": key -> stored object
    last,                \* the last task run: what it loaded and produced
    uploaded,            \* a source file was replaced after the first run
    s                    \* the Series given to clean_text_column

vars == <<pc, drugs_df, pubmed_df, clinical_trials_df, drug_graph, answer,
          df, result_df, bucket, last, uploaded, s>>

builderVars == <<drugs_df, pubmed_df, clinical_trials_df>>
identityVars == <<df, result_df>>
pipelineVars == <<bucket, last, uploaded>>

\* The values of the variables a specification does not use.
NoTables == drugs_df = <<>> /\ pubmed_df = <<>> /\ clinical_trials_df = <<>>
NoFrames == df = <<>> /\ result_df = <<>>
NoSeries == s = <<>>
NoTask == [task_id |-> "none"]
NoBucket == bucket = <<>> /\ last = NoTask /\ uploaded = FALSE

\* ---------------------------------------------------------------- values

\* A missing text value (numpy.nan / None in a text column).
NaN == <<"nan">>

\* A missing entry of a boolean mask.
NoValue == "nan"

\* What a call gave: nothing yet, a value, or an exception.
NotCalled == [status |-> "none"]
Returned(v) == [status |-> "returned", value |-> v]
Raised == [status |-> "raised"]

isna(v) == v = NaN

\* str.lower() of one letter, as re.IGNORECASE folds it.
Lower(c) == IF c = "A" THEN "a" ELSE IF c = "B" THEN "b" ELSE c

\* All sequences over S of length at most n.
RECURSIVE SeqsUpTo(_, _)
SeqsUpTo(S, n) ==
    IF n = 0 THEN {<<>>}
    ELSE LET shorter == SeqsUpTo(S, n - 1)
         IN  shorter \cup {Append(q, x) : q \in {p \in shorter : Len(p) = n - 1}, x \in S}

Range(q) == {q[i] : i \in 1..Len(q)}

\* ------------------------------------------------- create_drug_graph

\* re: one pattern letter against one subject letter under re.IGNORECASE;
\* "." is the regex metacharacter that matches any letter.
ReMatchesAt(pat, text, at) ==
    /\ at + Len(pat) - 1 <= Len(text)
    /\ \A k \in 1..Len(pat) :
          \/ pat[k] = "."
          \/ Lower(pat[k]) = Lower(text[at + k - 1])

\* Series.str.contains(pat, case=False): regex=True is the default, so the
\* drug name is compiled as a regular expression and searched for.  A missing
\* title gives a missing result.
str_contains(title, pat) ==
    IF isna(title) THEN NoValue
    ELSE IF \E at \in 1..(Len(title) + 1) : ReMatchesAt(pat, title, at)
         THEN "True" ELSE "False"

\* contains(...) & ~isna(): a missing result counts as False in the mask.
RowMask(row, drug_name) ==
    str_contains(row.title, drug_name) = "True" /\ ~isna(row.title)

\* str(value): a text stays itself, a missing value prints as nan.
Str(v) == IF isna(v) THEN <<"n", "a", "n">> ELSE v

\* extract_related_data: the projection of one row to a mention.
Mention(row) ==
    [id |-> Str(row.id), title |-> row.title, date |-> row.date, journal |-> row.journal]

extract_related_data(related_df) ==
    [i \in 1..Len(related_df) |-> Mention(related_df[i])]

\* table[mask]: the rows whose mask is True, in row order.
RECURSIVE RelatedFrom(_, _, _)
RelatedFrom(table, i, drug_name) ==
    IF i > Len(table) THEN <<>>
    ELSE (IF RowMask(table[i], drug_name) THEN <<table[i]>> ELSE <<>>)
         \o RelatedFrom(table, i + 1, drug_name)

Related(table, drug_name) == RelatedFrom(table, 1, drug_name)

\* The .str accessor exists on a column of strings (missing values allowed)
\* and on an empty column; a column read from CSV in which every title is
\* missing is a float column, and .str raises AttributeError.
StrAccessorOk(table) == Len(table) = 0 \/ \E i \in 1..Len(table) : ~isna(table[i].title)

\* Dict helpers: a dict is a sequence of [key, pubmed, clinical_trials].
Keys(g) == {g[i].key : i \in 1..Len(g)}

Entry(g, k) == g[CHOOSE i \in 1..Len(g) : g[i].key = k]

\* defaultdict.__getitem__: a missing key gets the default entry, at the end.
EnsureEntry(g, k) ==
    IF k \in Keys(g) THEN g
    ELSE Append(g, [key |-> k, pubmed |-> <<>>, clinical_trials |-> <<>>])

\* Mutant of SetField: the value is appended to the list of the entry.
SetField_Appends(g, k, field, value) ==
    LET h == EnsureEntry(g, k)
    IN  [i \in 1..Len(h) |->
            IF h[i].key = k THEN [h[i] EXCEPT ![field] = @ \o value] ELSE h[i]]

\* drug_graph[k][field] = value
SetField(g, k, field, value) ==
    LET h == EnsureEntry(g, k)
    IN  [i \in 1..Len(h) |->
            IF h[i].key = k THEN [h[i] EXCEPT ![field] = value] ELSE h[i]]

\* Mutant of DrugStep: an entry is made only for a drug that is mentioned.
DrugStep_SkipsUnmentioned(g, drug_row, pubmed, trials) ==
    LET p == extract_related_data(Related(pubmed, drug_row.drug))
        t == extract_related_data(Related(trials, drug_row.drug))
    IN  IF p = <<>> /\ t = <<>> THEN g
        ELSE SetField(SetField(g, drug_row.atccode, "pubmed", p),
                      drug_row.atccode, "clinical_trials", t)

\* One iteration of the loop over drugs_df.iterrows().
DrugStep(g, drug_row, pubmed, trials) ==
    LET g1 == SetField(g, drug_row.atccode, "pubmed",
                       extract_related_data(Related(pubmed, drug_row.drug)))
    IN  SetField(g1, drug_row.atccode, "clinical_trials",
                 extract_related_data(Related(trials, drug_row.drug)))

RECURSIVE DrugLoop(_, _, _, _, _)
DrugLoop(g, drugs, i, pubmed, trials) ==
    IF i > Len(drugs) THEN g
    ELSE DrugLoop(DrugStep(g, drugs[i], pubmed, trials), drugs, i + 1, pubmed, trials)

\* create_drug_graph: the graph, or Raised when the first drug row reaches
\* a title column without the .str accessor.
create_drug_graph(drugs, pubmed, trials) ==
    IF Len(drugs) > 0 /\ ~(StrAccessorOk(pubmed) /\ StrAccessorOk(trials))
    THEN Raised
    ELSE Returned(DrugLoop(<<>>, drugs, 1, pubmed, trials))

\* ------------------------------- extract_journal_with_most_drugs

\* Python's None where a journal is expected.
NoJournal == <<"None">>

\* list.count(x): the number of elements equal to x.
Count(list, x) == Cardinality({j \in 1..Len(list) : list[j] = x})

\* max(list, key=count) on a non-empty list: the first element whose count
\* is the largest.
RECURSIVE MaxByCountFrom(_, _, _)
MaxByCountFrom(list, i, best) ==
    IF i > Len(list) THEN best
    ELSE MaxByCountFrom(list, i + 1,
            IF Count(list, list[i]) > Count(list, best) THEN list[i] ELSE best)

MaxByCount(list) == MaxByCountFrom(list, 2, list[1])

\* data["pubmed"] + data["clinical_trials"]
AllMentions(data) == data.pubmed \o data.clinical_trials

\* len(set(mention["journal"] for mention in all_mentions))
UniqueCount(list) == Cardinality({list[j].journal : j \in 1..Len(list)})

\* Mutant of ExtractStep: >= for >, so the last drug wins a tie.
ExtractStep_LastWins(acc, data) ==
    IF AllMentions(data) # <<>> /\ UniqueCount(AllMentions(data)) >= acc.max_drugs_count
    THEN [max_drugs_count |-> UniqueCount(AllMentions(data)),
          most_mentioned_journal |-> MaxByCount(AllMentions(data)).journal]
    ELSE acc

\* The body of the loop over drug_data.items(), on the pair
\* (max_drugs_count, most_mentioned_journal).
ExtractStep(acc, data) ==
    LET all_mentions == AllMentions(data)
        unique_drugs_count == UniqueCount(all_mentions)
    IN  IF unique_drugs_count > acc.max_drugs_count
        THEN [max_drugs_count |-> unique_drugs_count,
              most_mentioned_journal |-> MaxByCount(all_mentions).journal]
        ELSE acc

RECURSIVE ExtractLoop(_, _, _)
ExtractLoop(acc, drug_data, i) ==
    IF i > Len(drug_data) THEN acc
    ELSE ExtractLoop(ExtractStep(acc, drug_data[i]), drug_data, i + 1)

extract_journal_with_most_drugs(drug_data) ==
    ExtractLoop([max_drugs_count |-> 0, most_mentioned_journal |-> NoJournal],
                drug_data, 1).most_mentioned_journal

\* ------------------------------------------------ find_related_drugs

\* Mutant of PubmedJournals: the journals of the trials are taken too.
PubmedJournals_WithTrials(data) ==
    {AllMentions(data)[j].journal : j \in 1..Len(AllMentions(data))}

\* set(mention["journal"] for mention in data["pubmed"])
PubmedJournals(data) == {data.pubmed[j].journal : j \in 1..Len(data.pubmed)}

\* The body of the loop over drug_data.items(), on related_drugs.
RelatedStep(related_drugs, data, target_drug, pubmed_journals) ==
    IF data.key # target_drug
    THEN LET common_journals_with_target == PubmedJournals(data) \cap pubmed_journals
         IN  IF common_journals_with_target # {}
             THEN related_drugs \cup {data.key}
             ELSE related_drugs
    ELSE related_drugs

RECURSIVE RelatedLoop(_, _, _, _, _)
RelatedLoop(related_drugs, drug_data, i, target_drug, pubmed_journals) ==
    IF i > Len(drug_data) THEN related_drugs
    ELSE RelatedLoop(
            RelatedStep(related_drugs, drug_data[i], target_drug, pubmed_journals),
            drug_data, i + 1, target_drug, pubmed_journals)

find_related_drugs(drug_data, target_drug) ==
    IF target_drug \in Keys(drug_data)
    THEN RelatedLoop({}, drug_data, 1, target_drug,
                     PubmedJournals(Entry(drug_data, target_drug)))
    ELSE {}

\* Mutant of drug_data_after_find: drug_data[target_drug] is evaluated
\* without the membership test, and a defaultdict makes the entry.
drug_data_after_find_Unguarded(drug_data, target_drug) ==
    EnsureEntry(drug_data, target_drug)

\* drug_data after find_related_drugs: its one subscript,
\* drug_data[target_drug], is evaluated under "target_drug in drug_data";
\* the rest reads through items() and get(), which make no entry.
drug_data_after_find(drug_data, target_drug) ==
    IF target_drug \in Keys(drug_data)
    THEN EnsureEntry(drug_data, target_drug)
    ELSE drug_data

\* drug_data after extract_journal_with_most_drugs: it reads through items()
\* and get(), and pubmed_mentions + clinical_trials_mentions is a new list.
drug_data_after_extract(drug_data) == drug_data

\* ------------------------------------------------------ bounded inputs

MaxDrugs == 2
MaxRows == 2

Codes == {"A04AD", "R01AD"}
DrugNames == {<<"a">>, <<"a", "b">>, <<"a", ".">>}
Titles == {<<"A", "b">>, <<"b", "a", ".">>, <<"b">>, NaN}
Journals == {<<"J">>, <<"K">>}

DrugRows == [atccode : Codes, drug : DrugNames]
SourceRows == [id : {<<"1">>}, title : Titles, date : {<<"2020-01-01">>}, journal : {<<"J">>}]

\* Pairs of tables holding at most MaxRows rows together.
TablePairs ==
    {<<p, t>> \in SeqsUpTo(SourceRows, MaxRows) \X SeqsUpTo(SourceRows, MaxRows) :
        Len(p) + Len(t) <= MaxRows}

\* ------------------------------------------------------ SpecBuild

InitBuild ==
    /\ pc = "start"
    /\ drugs_df \in SeqsUpTo(DrugRows, MaxDrugs)
    /\ \E pt \in TablePairs : pubmed_df = pt[1] /\ clinical_trials_df = pt[2]
    /\ drug_graph = <<>>
    /\ answer = NotCalled
    /\ NoSeries
    /\ NoFrames
    /\ NoBucket

Build ==
    /\ pc = "start"
    /\ answer' = create_drug_graph(drugs_df, pubmed_df, clinical_trials_df)
    /\ drug_graph' = IF answer'.status = "returned" THEN answer'.value ELSE drug_graph
    /\ pc' = "built"
    /\ UNCHANGED <<s, builderVars, identityVars, pipelineVars>>

NextBuild == Build

SpecBuild == InitBuild /\ [][NextBuild]_vars

Built == pc = "built" /\ answer.status = "returned"

\* Some row of the table is selected by the builder's mask for the name.
Mentioned(table, drug_name) == \E i \in 1..Len(table) : RowMask(table[i], drug_name)

\* No drug row carrying the code selects any publication or trial.
CodeUnmentioned(code) ==
    \A i \in 1..Len(drugs_df) :
        drugs_df[i].atccode = code =>
            /\ ~Mentioned(pubmed_df, drugs_df[i].drug)
            /\ ~Mentioned(clinical_trials_df, drugs_df[i].drug)

\* C1: the graph returned by create_drug_graph has a key for every atccode
\* of the drugs table; a code none of whose rows selects a publication or a
\* trial is a key too, and its entry has two empty lists.
C1_EveryDrugIsAKey ==
    Built =>
        \A i \in 1..Len(drugs_df) :
            LET code == drugs_df[i].atccode
            IN  /\ code \in Keys(answer.value)
                /\ CodeUnmentioned(code) =>
                      /\ Entry(answer.value, code).pubmed = <<>>
                      /\ Entry(answer.value, code).clinical_trials = <<>>

\* A graph was returned that holds a mentioned drug and an unmentioned one.
C1_Witness ==
    /\ Built
    /\ \E i, j \in 1..Len(drugs_df) :
          /\ CodeUnmentioned(drugs_df[i].atccode)
          /\ drugs_df[i].atccode \in Keys(answer.value)
          /\ Entry(answer.value, drugs_df[j].atccode).pubmed # <<>>

\* The position of the last drug row that carries the code.
LastRowOf(code) ==
    CHOOSE i \in 1..Len(drugs_df) :
        /\ drugs_df[i].atccode = code
        /\ \A j \in (i + 1)..Len(drugs_df) : drugs_df[j].atccode # code

\* C16: when several drug rows carry one atccode, the graph returned has one
\* entry for the code, and its pubmed and clinical_trials lists are the
\* matches of the name of the last such row only: a row replaces the lists
\* written by the rows before it.
C16_LastRowOfACodeWins ==
    Built =>
        \A i, j \in 1..Len(drugs_df) :
            (i < j /\ drugs_df[i].atccode = drugs_df[j].atccode) =>
                LET code == drugs_df[i].atccode
                    final == drugs_df[LastRowOf(code)]
                    g == answer.value
                IN  /\ Cardinality({k \in 1..Len(g) : g[k].key = code}) = 1
                    /\ Entry(g, code).pubmed
                          = extract_related_data(Related(pubmed_df, final.drug))
                    /\ Entry(g, code).clinical_trials
                          = extract_related_data(Related(clinical_trials_df, final.drug))

\* Two drug rows carry one code; the name of the first selects a trial that
\* the name of the second does not, and the entry lists the trials of the
\* second only.
C16_Witness ==
    /\ Built
    /\ Len(drugs_df) = 2
    /\ drugs_df[1].atccode = drugs_df[2].atccode
    /\ Len(Related(clinical_trials_df, drugs_df[1].drug)) = 2
    /\ Len(Related(clinical_trials_df, drugs_df[2].drug)) = 1
    /\ Len(Entry(answer.value, drugs_df[1].atccode).clinical_trials) = 1

\* The name occurs in the title as a case-insensitive substring.
ContainsName(title, name) ==
    /\ ~isna(title)
    /\ \E at \in 1..(Len(title) + 1) :
          /\ at + Len(name) - 1 <= Len(title)
          /\ \A k \in 1..Len(name) : Lower(name[k]) = Lower(title[at + k - 1])

\* The mentions of the rows whose title contains the name, in row order.
SubstringMentions(table, name) ==
    LET hits == SelectSeq(table, LAMBDA row : ContainsName(row.title, name))
    IN  [i \in 1..Len(hits) |-> Mention(hits[i])]

UniqueCode(i) ==
    \A j \in 1..Len(drugs_df) : j # i => drugs_df[j].atccode # drugs_df[i].atccode

\* C2: for every drug with a unique atccode, the pubmed list is exactly the
\* mentions of the publication rows whose title is present and contains the
\* drug's name as a case-insensitive substring, in row order, and the
\* clinical_trials list is the same for the trial rows.
C2_ListsAreSubstringMatches ==
    Built =>
        \A i \in 1..Len(drugs_df) :
            UniqueCode(i) =>
                LET e == Entry(answer.value, drugs_df[i].atccode)
                IN  /\ e.pubmed = SubstringMentions(pubmed_df, drugs_df[i].drug)
                    /\ e.clinical_trials =
                          SubstringMentions(clinical_trials_df, drugs_df[i].drug)

\* ------------------------------------------------------ SpecQuery

MaxMentions == 3

QueryMentions ==
    [id : {<<"1">>, <<"2">>}, title : {<<"A", "b">>}, date : {<<"2020-01-01">>},
     journal : Journals]

\* A drug code that is never a key of a drawn graph.
AbsentCode == "V03AB"
Targets == Codes \cup {AbsentCode}

\* The key orders of a dict over Codes: sequences without repetition.
KeySeqs == {k \in SeqsUpTo(Codes, Cardinality(Codes)) :
               \A i, j \in 1..Len(k) : i # j => k[i] # k[j]}

\* Nondecreasing sequences of k cut points in lo..n.
RECURSIVE CutsFrom(_, _, _)
CutsFrom(lo, n, k) ==
    IF k = 0 THEN {<<>>}
    ELSE UNION {{<<v>> \o rest : rest \in CutsFrom(v, n, k - 1)} : v \in lo..n}

\* Cut points 0 <= c[1] <= ... <= c[k] = n.
CutsOf(n, k) == IF k = 0 THEN {<<>>} ELSE {Append(c, n) : c \in CutsFrom(0, n, k - 1)}

Segment(q, c, j) == SubSeq(q, (IF j = 1 THEN 0 ELSE c[j - 1]) + 1, c[j])

\* The graph with the given keys whose mention lists are the consecutive
\* segments of q cut at c.
GraphOf(keys, q, c) ==
    [i \in 1..Len(keys) |->
        [key |-> keys[i],
         pubmed |-> Segment(q, c, 2 * i - 1),
         clinical_trials |-> Segment(q, c, 2 * i)]]

\* The graphs drawn hold at most MaxMentions mentions in all.
InitQuery ==
    /\ pc = "start"
    /\ \E keys \in KeySeqs, q \in SeqsUpTo(QueryMentions, MaxMentions) :
          /\ keys = <<>> => q = <<>>
          /\ \E c \in CutsOf(Len(q), 2 * Len(keys)) : drug_graph = GraphOf(keys, q, c)
    /\ answer = NotCalled
    /\ NoSeries
    /\ NoTables
    /\ NoFrames
    /\ NoBucket

\* The queries are called one after the other on the same graph.
FindRelated(target_drug) ==
    /\ pc \in {"start", "queried"}
    /\ answer' = [status |-> "returned", op |-> "find_related_drugs",
                  target |-> target_drug,
                  value |-> find_related_drugs(drug_graph, target_drug)]
    /\ drug_graph' = drug_data_after_find(drug_graph, target_drug)
    /\ pc' = "queried"
    /\ UNCHANGED <<s, builderVars, identityVars, pipelineVars>>

ExtractJournal ==
    /\ pc \in {"start", "queried"}
    /\ answer' = [status |-> "returned", op |-> "extract_journal_with_most_drugs",
                  target |-> AbsentCode,
                  value |-> extract_journal_with_most_drugs(drug_graph)]
    /\ drug_graph' = drug_data_after_extract(drug_graph)
    /\ pc' = "queried"
    /\ UNCHANGED <<s, builderVars, identityVars, pipelineVars>>

NextQuery ==
    \/ \E t \in Targets : FindRelated(t)
    \/ ExtractJournal

SpecQuery == InitQuery /\ [][NextQuery]_vars

Asked(op) == pc = "queried" /\ answer.status = "returned" /\ answer.op = op

JournalsIn(list) == {m.journal : m \in Range(list)}

\* The graph with every clinical_trials list emptied.
WithoutTrials(g) == [i \in 1..Len(g) |-> [g[i] EXCEPT !.clinical_trials = <<>>]]

\* C3: find_related_drugs(g, t) is the set of the drug codes d of g, d # t,
\* whose pubmed journals meet the pubmed journals of t; it is empty when t is
\* not a key of g; and it is the same on the graph without any trial.
C3_RelatedDrugs ==
    Asked("find_related_drugs") =>
        LET g == drug_graph
            t == answer.target
        IN  /\ t \in Keys(g) =>
                  answer.value =
                      {d \in Keys(g) \ {t} :
                          JournalsIn(Entry(g, d).pubmed)
                              \cap JournalsIn(Entry(g, t).pubmed) # {}}
            /\ t \notin Keys(g) => answer.value = {}
            /\ answer.value = find_related_drugs(WithoutTrials(g), t)

\* A related drug was found for a target that shares a journal with another
\* drug through a trial as well.
C3_Witness ==
    /\ Asked("find_related_drugs")
    /\ answer.target \in Keys(drug_graph)
    /\ answer.value # {}
    /\ \E i \in 1..Len(drug_graph) :
          /\ drug_graph[i].key # answer.target
          /\ JournalsIn(drug_graph[i].clinical_trials)
                \cap JournalsIn(Entry(drug_graph, answer.target).pubmed) # {}

SomeMention(g) == \E i \in 1..Len(g) : AllMentions(g[i]) # <<>>

\* The number of distinct journals in the combined list of the i-th drug.
DistinctJournals(g, i) == Cardinality(JournalsIn(g[i].pubmed \o g[i].clinical_trials))

\* The first drug, in iteration order, with the largest number.
FirstMostDiverse(g) ==
    CHOOSE i \in 1..Len(g) :
        /\ \A j \in 1..Len(g) : DistinctJournals(g, j) <= DistinctJournals(g, i)
        /\ \A j \in 1..(i - 1) : DistinctJournals(g, j) < DistinctJournals(g, i)

Occurrences(list, k) == Cardinality({j \in 1..Len(list) : list[j] = list[k]})

\* The earliest mention among those that occur most often in the list.
FirstMostFrequent(list) ==
    CHOOSE k \in 1..Len(list) :
        /\ \A j \in 1..Len(list) : Occurrences(list, j) <= Occurrences(list, k)
        /\ \A j \in 1..(k - 1) : Occurrences(list, j) < Occurrences(list, k)

DrugsMentionedBy(g, journal) ==
    {g[i].key : i \in {j \in 1..Len(g) : journal \in JournalsIn(AllMentions(g[j]))}}

\* C5: on a graph with a mention, no journal is in the lists of strictly more
\* distinct drugs than the journal that extract_journal_with_most_drugs
\* returns.
C5_JournalWithMostDrugs ==
    (Asked("extract_journal_with_most_drugs") /\ SomeMention(drug_graph)) =>
        \A i \in 1..Len(drug_graph) :
            \A journal \in JournalsIn(AllMentions(drug_graph[i])) :
                Cardinality(DrugsMentionedBy(drug_graph, journal))
                    <= Cardinality(DrugsMentionedBy(drug_graph, answer.value))

\* C14: no call of find_related_drugs or extract_journal_with_most_drugs
\* changes the graph it is given: over every sequence of calls, with a target
\* that is a key or not, the keys and the pubmed and clinical_trials lists of
\* every key stay as they were.
C14_QueriesDoNotMutate ==
    [][/\ Keys(drug_graph') = Keys(drug_graph)
       /\ Len(drug_graph') = Len(drug_graph)
       /\ \A k \in Keys(drug_graph) :
             /\ Entry(drug_graph', k).pubmed = Entry(drug_graph, k).pubmed
             /\ Entry(drug_graph', k).clinical_trials
                   = Entry(drug_graph, k).clinical_trials]_vars

\* find_related_drugs was called with a target that is no key of a graph
\* that holds mentions, and the target is still no key.
C14_Witness ==
    /\ pc = "queried"
    /\ answer.op = "find_related_drugs"
    /\ answer.target \notin Keys(drug_graph)
    /\ \E k \in Keys(drug_graph) : Entry(drug_graph, k).pubmed # <<>>

\* ------------------------------------------ create_hashed_uuid_for_nan

\* A DataFrame: its column names, its index labels and its rows, each row a
\* function from the column names to values.
Frame(columns, rows) ==
    [columns |-> columns, index |-> [i \in 1..Len(rows) |-> i - 1], rows |-> rows]

\* The column names of the tables, in sorted order.
ColumnOrder == <<"date", "id", "journal", "scientific_title", "title">>

\* result_df.columns.difference([id_column]): the other columns, sorted.
OtherColumns(frame, id_column) ==
    SelectSeq(ColumnOrder, LAMBDA c : c \in frame.columns /\ c # id_column)

\* ','.join(map(str, row))
RECURSIVE JoinFrom(_, _, _)
JoinFrom(row, cols, i) ==
    IF i > Len(cols) THEN <<>>
    ELSE (IF i > 1 THEN <<",">> ELSE <<>>) \o Str(row[cols[i]]) \o JoinFrom(row, cols, i + 1)

\* str(n) of an index label.
Digits == <<"0", "1", "2", "3", "4", "5", "6", "7", "8", "9">>
StrOfLabel(n) == <<Digits[n + 1]>>

\* Mutant of HashedUuid: the index label of the row is hashed with its values.
HashedUuid_WithIndex(frame, i, cols) ==
    <<"uuid5">> \o StrOfLabel(frame.index[i]) \o <<",">> \o JoinFrom(frame.rows[i], cols, 1)

\* str(uuid.uuid5(uuid.NAMESPACE_DNS, md5(joined).hexdigest())) of the i-th
\* row: a value that is determined by the joined text.
HashedUuid(frame, i, cols) == <<"uuid5">> \o JoinFrom(frame.rows[i], cols, 1)

\* result_df.loc[nan_without_existing_id, id_column] = hashed uuids
AssignHashes(frame, id_column) ==
    LET cols == OtherColumns(frame, id_column)
    IN  [frame EXCEPT !.rows =
            [i \in 1..Len(frame.rows) |->
                IF isna(frame.rows[i][id_column])
                THEN [frame.rows[i] EXCEPT ![id_column] = HashedUuid(frame, i, cols)]
                ELSE frame.rows[i]]]

\* Mutant of create_hashed_uuid_for_nan: no copy, the caller's table is
\* assigned to.
create_hashed_uuid_for_nan_InPlace(frame, id_column) ==
    [input |-> AssignHashes(frame, id_column), result |-> AssignHashes(frame, id_column)]

\* create_hashed_uuid_for_nan: the caller's table after the call, and the
\* table returned (the assignment is made on a copy).
create_hashed_uuid_for_nan(frame, id_column) ==
    [input |-> frame, result |-> AssignHashes(frame, id_column)]

\* ------------------------------------------------------ SpecId

MaxIdRows == 2

IdColumns == {"id", "title", "date", "journal"}
IdRows ==
    [id : {<<"1">>, NaN}, title : {<<"a">>, <<"b">>}, date : {<<"2020-01-01">>},
     journal : {<<"J">>}]

\* Two tables are drawn; the function is called on the first, then on the
\* second.
InitId ==
    /\ pc = "start"
    /\ \E r1, r2 \in SeqsUpTo(IdRows, MaxIdRows) :
          df = <<Frame(IdColumns, r1), Frame(IdColumns, r2)>>
    /\ result_df = <<>>
    /\ drug_graph = <<>>
    /\ answer = NotCalled
    /\ NoSeries
    /\ NoTables
    /\ NoBucket

AssignIds ==
    /\ pc = "start"
    /\ LET k == Len(result_df) + 1
           r == create_hashed_uuid_for_nan(df[k], "id")
       IN  /\ df' = [df EXCEPT ![k] = r.input]
           /\ result_df' = Append(result_df, r.result)
           /\ pc' = IF k = Len(df) THEN "assigned" ELSE "start"
    /\ UNCHANGED <<s, builderVars, drug_graph, answer, pipelineVars>>

NextId == AssignIds

SpecId == InitId /\ [][NextId]_vars

\* C9: a call of create_hashed_uuid_for_nan returns a table with the same
\* columns, index and number of rows, in which no id is missing, every id
\* that was present is kept and every other value is unchanged; the table
\* given is not modified.
C9_IdentityAssignedOnACopy ==
    [][\A k \in 1..Len(df) :
          (Len(result_df) = k - 1 /\ Len(result_df') = k) =>
              LET in == df[k]
                  out == result_df'[k]
              IN  /\ df' = df
                  /\ out.columns = in.columns
                  /\ out.index = in.index
                  /\ Len(out.rows) = Len(in.rows)
                  /\ \A i \in 1..Len(in.rows) :
                        /\ ~isna(out.rows[i].id)
                        /\ ~isna(in.rows[i].id) => out.rows[i].id = in.rows[i].id
                        /\ \A c \in in.columns \ {"id"} :
                              out.rows[i][c] = in.rows[i][c]]_vars

\* The function was called on a table that holds a row with an id and a row
\* without one, and the row without one got an id.
C9_Witness ==
    /\ pc = "assigned"
    /\ \E k \in 1..Len(df) : \E i, j \in 1..Len(df[k].rows) :
          /\ isna(df[k].rows[i].id)
          /\ ~isna(df[k].rows[j].id)
          /\ ~isna(result_df[k].rows[i].id)
          /\ result_df[k].rows[j].id = df[k].rows[j].id

SameContent(r1, r2) == \A c \in IdColumns \ {"id"} : r1[c] = r2[c]

\* C10: two rows without an id whose other values are equal get the same id,
\* in the same table or in the tables of two calls, whatever the other rows.
C10_IdentityDependsOnContentOnly ==
    \A k1, k2 \in 1..Len(result_df) :
        \A i \in 1..Len(df[k1].rows), j \in 1..Len(df[k2].rows) :
            (/\ isna(df[k1].rows[i].id)
             /\ isna(df[k2].rows[j].id)
             /\ SameContent(df[k1].rows[i], df[k2].rows[j]))
                => result_df[k1].rows[i].id = result_df[k2].rows[j].id

\* Two rows without an id and with equal values, at different places of two
\* tables that differ in their other rows, got one id; a row with other
\* values got another.
C10_Witness ==
    /\ pc = "assigned"
    /\ Len(df[1].rows) = 2 /\ Len(df[2].rows) = 2
    /\ isna(df[1].rows[1].id) /\ isna(df[2].rows[2].id) /\ isna(df[1].rows[2].id)
    /\ SameContent(df[1].rows[1], df[2].rows[2])
    /\ ~SameContent(df[1].rows[2], df[2].rows[1])
    /\ ~SameContent(df[1].rows[1], df[1].rows[2])
    /\ result_df[1].rows[1].id = result_df[2].rows[2].id
    /\ result_df[1].rows[1].id # result_df[1].rows[2].id

\* ------------------------------------------------- clean_text_column

\* [0-9a-fA-F], among the letters the texts are made of.
IsHex(c) == c \in {"a", "A", "b", "B", "c", "3"}

\* str.strip()
RECURSIVE LStrip(_)
LStrip(text) == IF text # <<>> /\ Head(text) = " " THEN LStrip(Tail(text)) ELSE text

RECURSIVE RStrip(_)
RStrip(text) ==
    IF text # <<>> /\ text[Len(text)] = " "
    THEN RStrip(SubSeq(text, 1, Len(text) - 1))
    ELSE text

strip(text) == RStrip(LStrip(text))

\* The length of the match of (\\\\x|\\x)[0-9a-fA-F]{2} ? that starts at
\* position i, 0 when there is none.
EscapeLenAt(text, i) ==
    LET prefix == IF /\ i + 2 <= Len(text)
                     /\ text[i] = "\\" /\ text[i + 1] = "\\" /\ text[i + 2] = "x"
                  THEN 3
                  ELSE IF i + 1 <= Len(text) /\ text[i] = "\\" /\ text[i + 1] = "x"
                       THEN 2
                       ELSE 0
        h == i + prefix
    IN  IF prefix > 0 /\ h + 1 <= Len(text) /\ IsHex(text[h]) /\ IsHex(text[h + 1])
        THEN prefix + 2 + (IF h + 2 <= Len(text) /\ text[h + 2] = " " THEN 1 ELSE 0)
        ELSE 0

\* re.sub(pattern, "", string): the matches are deleted, left to right.
RECURSIVE SubFrom(_, _)
SubFrom(text, i) ==
    IF i > Len(text) THEN <<>>
    ELSE IF EscapeLenAt(text, i) > 0
         THEN SubFrom(text, i + EscapeLenAt(text, i))
         ELSE <<text[i]>> \o SubFrom(text, i + 1)

clean_non_utf8_characters(text) == SubFrom(text, 1)

\* clean_text_column, on one value: fillna(""), strip, then the deletion.
clean_text_column(v) ==
    clean_non_utf8_characters(strip(IF isna(v) THEN <<>> ELSE v))

\* --------------------------------------------------------- clean_date

\* parse(string, fuzzy=True).date().isoformat(): the date in ISO form, or an
\* exception for a text without a date and for a missing value.
fuzzy_string_to_iso8601(v) ==
    IF v = <<"2022-01-01">> THEN Returned(<<"2022-01-01">>)
    ELSE IF v = <<"25/05/2020">> THEN Returned(<<"2020-05-25">>)
    ELSE IF v = <<"1 January 2020">> THEN Returned(<<"2020-01-01">>)
    ELSE Raised

\* ------------------------------------------------- bucket and files

EmptyFrame == [columns |-> {}, index |-> <<>>, rows |-> <<>>]

Absent == [kind |-> "absent"]

\* s3_hook.check_for_key
check_for_key(b, key) == b[key].kind # "absent"

\* to_csv(index=False): the index is not written; a missing value and an
\* empty text are both written as an empty field.
CsvField(v) == IF isna(v) THEN <<>> ELSE v

to_csv(frame) ==
    [kind |-> "csv", columns |-> frame.columns,
     rows |-> [i \in 1..Len(frame.rows) |->
                 [c \in frame.columns |-> CsvField(frame.rows[i][c])]]]

\* pd.read_csv: an empty field is read as a missing value, the index is new.
ReadField(field) == IF field = <<>> THEN NaN ELSE field

read_csv(file) ==
    Frame(file.columns,
          [i \in 1..Len(file.rows) |-> [c \in file.columns |-> ReadField(file.rows[i][c])]])

\* read_from_bucket_and_load_to_dataframe: every exception (a missing key,
\* malformed JSON, a file without columns, an unsupported format) is logged
\* and an empty DataFrame is returned.
read_from_bucket_and_load_to_dataframe(b, key, file_format) ==
    LET file == b[key]
    IN  IF file.kind = "absent" THEN EmptyFrame
        ELSE IF file_format = "json"
             THEN (IF file.kind = "json" THEN Frame(file.columns, file.rows) ELSE EmptyFrame)
        ELSE IF file_format = "csv"
             THEN (IF file.kind = "csv" /\ file.columns # {} THEN read_csv(file) ELSE EmptyFrame)
        ELSE EmptyFrame

\* s3_hook.load_string(string_data, key, bucket_name): replace is left at its
\* default False, so the hook raises ValueError when the key exists.
load_string(b, key, file) ==
    IF check_for_key(b, key)
    THEN [status |-> "raised", bucket |-> b]
    ELSE [status |-> "returned", bucket |-> [b EXCEPT ![key] = file]]

\* write_dataframe_to_bucket
write_dataframe_to_bucket(b, key, frame, overwrite) ==
    IF check_for_key(b, key) /\ ~overwrite
    THEN [status |-> "returned", bucket |-> b]
    ELSE load_string(b, key, to_csv(frame))

\* ---------------------------------------- CsvCleaningOperator.execute

\* The frame with the rows at the given positions, labels kept.
TakeRows(frame, keep) ==
    [frame EXCEPT !.index = [k \in 1..Len(keep) |-> frame.index[keep[k]]],
                  !.rows = [k \in 1..Len(keep) |-> frame.rows[keep[k]]]]

Positions(frame) == [i \in 1..Len(frame.rows) |-> i]

\* data[column] = values
SetColumn(frame, column, values) ==
    [frame EXCEPT !.rows =
        [i \in 1..Len(frame.rows) |-> [frame.rows[i] EXCEPT ![column] = values[i]]]]

\* data[column], as the sequence of its values.
Column(frame, column) == [i \in 1..Len(frame.rows) |-> frame.rows[i][column]]

\* for column in text_columns: data[column] = clean_text_column(data[column])
RECURSIVE CleanTextColumns(_, _, _)
CleanTextColumns(frame, columns, i) ==
    IF i > Len(columns) THEN frame
    ELSE LET values == Column(frame, columns[i])
         IN  CleanTextColumns(
                 SetColumn(frame, columns[i],
                           [k \in 1..Len(values) |-> clean_text_column(values[k])]),
                 columns, i + 1)

\* clean_date raises when one value of the column has no date.
DateRaises(frame, column) ==
    \E i \in 1..Len(frame.rows) :
        fuzzy_string_to_iso8601(frame.rows[i][column]).status = "raised"

IsoDate(v) == fuzzy_string_to_iso8601(v).value

RECURSIVE CleanDateColumns(_, _, _)
CleanDateColumns(frame, columns, i) ==
    IF i > Len(columns) THEN frame
    ELSE LET values == Column(frame, columns[i])
         IN  CleanDateColumns(
                 SetColumn(frame, columns[i], [k \in 1..Len(values) |-> IsoDate(values[k])]),
                 columns, i + 1)

\* Mutant of DropEmpty: the rows are dropped by position in the table as
\* loaded, not by label.
DropEmpty_ByPosition(frame, column) ==
    LET labels == {frame.index[i] : i \in {j \in 1..Len(frame.rows) :
                                               frame.rows[j][column] = <<>>}}
    IN  TakeRows(frame, SelectSeq(Positions(frame), LAMBDA i : (i - 1) \notin labels))

\* data.drop(data[data[column] == ""].index): the rows whose label is the
\* label of a row with an empty value are removed.
DropEmpty(frame, column) ==
    LET labels == {frame.index[i] : i \in {j \in 1..Len(frame.rows) :
                                               frame.rows[j][column] = <<>>}}
    IN  TakeRows(frame, SelectSeq(Positions(frame), LAMBDA i : frame.index[i] \notin labels))

\* for column in obligatory_columns: data = data.drop(...)
RECURSIVE DropObligatory(_, _, _)
DropObligatory(frame, columns, i) ==
    IF i > Len(columns) THEN frame
    ELSE DropObligatory(DropEmpty(frame, columns[i]), columns, i + 1)

\* data.rename(columns=mapping): mapping is a set of <<old, new>> pairs;
\* a pair whose old name is no column changes nothing.
NewName(c, mapping) ==
    IF \E m \in mapping : m[1] = c
    THEN (CHOOSE m \in mapping : m[1] = c)[2]
    ELSE c

OldName(c, frame, mapping) == CHOOSE o \in frame.columns : NewName(o, mapping) = c

rename(frame, mapping) ==
    LET columns == {NewName(c, mapping) : c \in frame.columns}
    IN  [frame EXCEPT !.columns = columns,
                      !.rows = [i \in 1..Len(frame.rows) |->
                                   [c \in columns |->
                                       frame.rows[i][OldName(c, frame, mapping)]]]]

HasColumns(frame, columns) == \A i \in 1..Len(columns) : columns[i] \in frame.columns

\* The outcome of a task: whether execute returned or raised, the bucket
\* after it, the table it loaded and the table it gave to the writer.
Outcome(status, b, input, data) ==
    [status |-> status, bucket |-> b, input |-> input, data |-> data]

\* CsvCleaningOperator.execute with the operator's source_file,
\* destination_file and column_groups.
CsvCleaningOperator_execute(b, self) ==
    LET data == read_from_bucket_and_load_to_dataframe(b, self.source_file, "csv")
        groups == self.column_groups
        failed == Outcome("raised", b, data, EmptyFrame)
    IN  IF ~HasColumns(data, groups.text_columns) THEN failed
        ELSE LET text == CleanTextColumns(data, groups.text_columns, 1)
        IN  IF ~HasColumns(text, groups.date_columns) THEN failed
        ELSE IF \E i \in 1..Len(groups.date_columns) :
                    DateRaises(text, groups.date_columns[i]) THEN failed
        ELSE LET dated == CleanDateColumns(text, groups.date_columns, 1)
        IN  IF ~HasColumns(dated, groups.obligatory_columns) THEN failed
        ELSE LET kept == DropObligatory(dated, groups.obligatory_columns, 1)
        IN  IF "id" \notin kept.columns THEN failed
        ELSE LET identified == create_hashed_uuid_for_nan(kept, "id").result
                 renamed == IF groups.rename # {}
                            THEN rename(identified, groups.rename)
                            ELSE identified
                 written == write_dataframe_to_bucket(b, self.destination_file,
                                                      renamed, FALSE)
             IN  Outcome(written.status, written.bucket, data, renamed)

\* ------------------------------------------------ servier_pipeline

clinical_trials_cleaning ==
    [task_id |-> "clinical_trials_cleaning",
     source_file |-> "clinical_trials.csv",
     destination_file |-> "DP_clinical_trials.csv",
     column_groups |->
        [text_columns |-> <<"scientific_title", "journal">>,
         date_columns |-> <<"date">>,
         obligatory_columns |-> <<"scientific_title", "journal">>,
         rename |-> {<<"scientific_title", "title">>}]]

pubmed_cleaning ==
    [task_id |-> "pubmed_cleaning",
     source_file |-> "Merge_pubmed.csv",
     destination_file |-> "DP_pubmed.csv",
     column_groups |->
        [text_columns |-> <<"title", "journal">>,
         date_columns |-> <<"date">>,
         obligatory_columns |-> <<"title", "journal">>,
         rename |-> {<<"", "">>}]]

BucketKeys ==
    {"clinical_trials.csv", "pubmed.csv", "pubmed.json", "drugs.csv",
     "Merge_pubmed.csv", "DP_clinical_trials.csv", "DP_pubmed.csv", "drug_graph.json"}

\* The task after a task of the DAG.
Downstream(task_id) ==
    IF task_id = "clinical_trials_cleaning" THEN "pubmed_merging"
    ELSE IF task_id = "pubmed_merging" THEN "pubmed_cleaning"
    ELSE IF task_id = "pubmed_cleaning" THEN "generate_drug_graph"
    ELSE "success"

\* A task that raises fails the run: the tasks downstream are not run.
AfterTask(task_id, outcome) ==
    /\ bucket' = outcome.bucket
    /\ last' = [task_id |-> task_id, status |-> outcome.status,
                input |-> outcome.input, data |-> outcome.data, before |-> bucket]
    /\ pc' = IF outcome.status = "returned" THEN Downstream(task_id) ELSE "failed"

RunCleaning(self) ==
    /\ pc = self.task_id
    /\ AfterTask(self.task_id, CsvCleaningOperator_execute(bucket, self))
    /\ UNCHANGED <<s, builderVars, identityVars, drug_graph, answer, uploaded>>

ClinicalTrialsCleaning == RunCleaning(clinical_trials_cleaning)

PubmedCleaning == RunCleaning(pubmed_cleaning)

\* ------------------------------------------------------ SpecClean

MaxCleanRows == 2

RawTitles == {<<" ", "a">>, <<" ">>, <<"\\", "x", "c", "3">>}
RawJournals == {<<"J">>, NaN}
RawDates == {<<"2022-01-01">>, <<"25/05/2020">>, <<"unknown">>}
RawIds == {<<"NCT1">>, NaN}

\* The rows of a source table whose title column has the given name.
RawRows(title_column) ==
    {(title_column :> t) @@ [id |-> i, date |-> d, journal |-> j] :
        t \in RawTitles, i \in RawIds, d \in RawDates, j \in RawJournals}

RawCsv(title_column, rows) ==
    to_csv(Frame({"id", "date", "journal", title_column}, rows))

TitleColumn(self) == self.column_groups.text_columns[1]

\* A table left at the destination by an earlier run.
StaleCsv == RawCsv("title", <<>>)

\* One cleaning task is run on a bucket that holds its source table, with or
\* without an older table at its destination.
InitClean ==
    /\ \E self \in {clinical_trials_cleaning, pubmed_cleaning} :
          \E rows \in SeqsUpTo(RawRows(TitleColumn(self)), MaxCleanRows) :
             \E stale \in {Absent, StaleCsv} :
                /\ pc = self.task_id
                /\ bucket = [k \in BucketKeys |->
                               IF k = self.source_file
                               THEN RawCsv(TitleColumn(self), rows)
                               ELSE IF k = self.destination_file THEN stale
                               ELSE Absent]
    /\ last = NoTask
    /\ uploaded = FALSE
    /\ drug_graph = <<>>
    /\ answer = NotCalled
    /\ NoSeries
    /\ NoTables
    /\ NoFrames

NextClean ==
    \/ ClinicalTrialsCleaning
    \/ PubmedCleaning

SpecClean == InitClean /\ [][NextClean]_vars

CleaningTasks == {clinical_trials_cleaning, pubmed_cleaning}

CleaningRan == last.task_id \in {self.task_id : self \in CleaningTasks}

OperatorOf(task_id) == CHOOSE self \in CleaningTasks : self.task_id = task_id

\* Every obligatory column of the row is non-empty once its text is
\* normalized.
ObligatoryFilled(row, groups) ==
    \A k \in 1..Len(groups.obligatory_columns) :
        clean_text_column(row[groups.obligatory_columns[k]]) # <<>>

DateParses(row, groups) ==
    \A k \in 1..Len(groups.date_columns) :
        fuzzy_string_to_iso8601(row[groups.date_columns[k]]).status = "returned"

\* The table was loaded with the columns the operator names.
WellFormed(frame, groups) ==
    /\ HasColumns(frame, groups.text_columns \o groups.date_columns)
    /\ "id" \in frame.columns

\* The row of the loaded table that carries the index label.
RowAt(frame, label) == frame.rows[label + 1]

\* C7: when CsvCleaningOperator.execute completes, the table it produced
\* holds no row with an empty obligatory column, and it holds every other
\* row of the table loaded, in the original order (the rows carry the index
\* labels of the table loaded); with every date parseable the stage
\* completes, whether or not rows are dropped.
C7_EmptyObligatoryRowsDropped ==
    CleaningRan =>
        LET groups == OperatorOf(last.task_id).column_groups
            loaded == last.input
            cleaned == last.data
        IN  /\ last.status = "returned" =>
                  /\ cleaned.index =
                        SelectSeq(loaded.index,
                                  LAMBDA l : ObligatoryFilled(RowAt(loaded, l), groups))
                  /\ \A i \in 1..Len(cleaned.rows) :
                        \A k \in 1..Len(groups.obligatory_columns) :
                            cleaned.rows[i][NewName(groups.obligatory_columns[k],
                                                    groups.rename)] # <<>>
            /\ (/\ WellFormed(loaded, groups)
                /\ \A i \in 1..Len(loaded.rows) : DateParses(loaded.rows[i], groups))
                  => last.status = "returned"

\* A cleaning completed that dropped the first row loaded, for a missing
\* journal, and kept the second.
C7_Witness ==
    /\ CleaningRan
    /\ last.status = "returned"
    /\ Len(last.input.rows) = 2
    /\ isna(last.input.rows[1].journal)
    /\ last.data.index = <<1>>

\* C8: when the date of one row of the table has no date in it, the stage
\* excludes that row only: it completes, the cleaned table holds every other
\* row with parseable dates and non-empty obligatory columns, and it is
\* written to a destination that was free.
C8_BadDateExcludesRowOnly ==
    (/\ CleaningRan
     /\ WellFormed(last.input, OperatorOf(last.task_id).column_groups)
     /\ \E i \in 1..Len(last.input.rows) :
           ~DateParses(last.input.rows[i], OperatorOf(last.task_id).column_groups))
        =>
        LET self == OperatorOf(last.task_id)
            groups == self.column_groups
            loaded == last.input
        IN  /\ last.status = "returned"
            /\ last.data.index =
                  SelectSeq(loaded.index,
                            LAMBDA l : /\ DateParses(RowAt(loaded, l), groups)
                                       /\ ObligatoryFilled(RowAt(loaded, l), groups))
            /\ ~check_for_key(last.before, self.destination_file)
                  => bucket[self.destination_file] = to_csv(last.data)

\* ------------------------------------------ FileMergeOperator.execute

\* Mutant of concat: the rows of the table read last are put first.
concat_NewRowsFirst(a, b) ==
    LET columns == a.columns \cup b.columns
        Widen(row) == [c \in columns |-> IF c \in DOMAIN row THEN row[c] ELSE NaN]
    IN  Frame(columns,
              [i \in 1..(Len(a.rows) + Len(b.rows)) |->
                  IF i <= Len(b.rows) THEN Widen(b.rows[i])
                  ELSE Widen(a.rows[i - Len(b.rows)])])

\* pd.concat([a, b], axis=0, ignore_index=True): the rows of a, then the rows
\* of b, over the union of the columns; a column a row does not have is
\* missing in it; the index is new.
concat(a, b) ==
    LET columns == a.columns \cup b.columns
        Widen(row) == [c \in columns |-> IF c \in DOMAIN row THEN row[c] ELSE NaN]
    IN  Frame(columns,
              [i \in 1..(Len(a.rows) + Len(b.rows)) |->
                  IF i <= Len(a.rows) THEN Widen(a.rows[i])
                  ELSE Widen(b.rows[i - Len(a.rows)])])

\* for file_name, file_type in self.file_mapping.items(): read and concat.
RECURSIVE MergeLoop(_, _, _, _)
MergeLoop(b, merged_data, file_mapping, i) ==
    IF i > Len(file_mapping) THEN merged_data
    ELSE MergeLoop(b,
                   concat(merged_data,
                          read_from_bucket_and_load_to_dataframe(
                              b, file_mapping[i][1], file_mapping[i][2])),
                   file_mapping, i + 1)

\* FileMergeOperator.execute: the exceptions of the loop and of the write are
\* logged, so execute always returns.
FileMergeOperator_execute(b, self) ==
    LET merged_data == MergeLoop(b, EmptyFrame, self.file_mapping, 1)
        written == write_dataframe_to_bucket(b, self.destination_file,
                                             merged_data, FALSE)
    IN  Outcome("returned", written.bucket, EmptyFrame, merged_data)

\* ---------------------------------- GenerateDrugGraphOperator.execute

\* json.dumps of the graph, as the stored object.
json_dumps(data_dict) == [kind |-> "json", graph |-> data_dict]

\* write_dict_to_bucket_json
write_dict_to_bucket_json(b, key, data_dict, overwrite) ==
    IF check_for_key(b, key) /\ ~overwrite
    THEN [status |-> "returned", bucket |-> b]
    ELSE load_string(b, key, json_dumps(data_dict))

\* The graph execute builds from the three tables it loads, or Raised: a
\* table without its "date" column, a drug row without its columns, a table
\* without the columns of a mention, and an exception of create_drug_graph.
GraphFrom(drug_data, pubmed_data, clinical_trials_data) ==
    IF "date" \notin clinical_trials_data.columns \/ "date" \notin pubmed_data.columns
    THEN Raised
    ELSE IF /\ Len(drug_data.rows) > 0
            /\ \/ ~HasColumns(drug_data, <<"atccode", "drug">>)
               \/ ~HasColumns(pubmed_data, <<"title", "id", "journal">>)
               \/ ~HasColumns(clinical_trials_data, <<"title", "id", "journal">>)
    THEN Raised
    ELSE create_drug_graph(drug_data.rows, pubmed_data.rows, clinical_trials_data.rows)

\* Mutant of GenerateDrugGraphOperator_execute: a failure stores an empty
\* graph at the destination key.
GenerateDrugGraphOperator_execute_WritesOnFailure(b, self) ==
    LET drug_data == read_from_bucket_and_load_to_dataframe(b, self.file_keys.drug, "csv")
        clinical_trials_data ==
            read_from_bucket_and_load_to_dataframe(b, self.file_keys.clinical_trials, "csv")
        pubmed_data == read_from_bucket_and_load_to_dataframe(b, self.file_keys.pubmed, "csv")
        built == GraphFrom(drug_data, pubmed_data, clinical_trials_data)
    IN  IF built.status = "raised"
        THEN Outcome("returned", [b EXCEPT ![self.destination_key] = json_dumps(<<>>)],
                     EmptyFrame, built)
        ELSE Outcome("returned",
                     write_dict_to_bucket_json(b, self.destination_key,
                                               built.value, TRUE).bucket,
                     EmptyFrame, built)

\* GenerateDrugGraphOperator.execute: the whole body is in a try whose
\* except logs, so execute always returns; the graph is written with
\* overwrite=True.
GenerateDrugGraphOperator_execute(b, self) ==
    LET drug_data == read_from_bucket_and_load_to_dataframe(b, self.file_keys.drug, "csv")
        clinical_trials_data ==
            read_from_bucket_and_load_to_dataframe(b, self.file_keys.clinical_trials, "csv")
        pubmed_data == read_from_bucket_and_load_to_dataframe(b, self.file_keys.pubmed, "csv")
        built == GraphFrom(drug_data, pubmed_data, clinical_trials_data)
    IN  IF built.status = "raised" THEN Outcome("returned", b, EmptyFrame, built)
        ELSE Outcome("returned",
                     write_dict_to_bucket_json(b, self.destination_key,
                                               built.value, TRUE).bucket,
                     EmptyFrame, built)

\* ------------------------------------------- servier_pipeline, the DAG

pubmed_merging ==
    [task_id |-> "pubmed_merging",
     file_mapping |-> <<<<"pubmed.csv", "csv">>, <<"pubmed.json", "json">>>>,
     destination_file |-> "Merge_pubmed.csv"]

generate_drug_graph ==
    [task_id |-> "generate_drug_graph",
     file_keys |-> [drug |-> "drugs.csv",
                    clinical_trials |-> "DP_clinical_trials.csv",
                    pubmed |-> "DP_pubmed.csv"],
     destination_key |-> "drug_graph.json"]

PubmedMerging ==
    /\ pc = pubmed_merging.task_id
    /\ AfterTask(pubmed_merging.task_id, FileMergeOperator_execute(bucket, pubmed_merging))
    /\ UNCHANGED <<s, builderVars, identityVars, drug_graph, answer, uploaded>>

GenerateDrugGraph ==
    /\ pc = generate_drug_graph.task_id
    /\ AfterTask(generate_drug_graph.task_id,
                 GenerateDrugGraphOperator_execute(bucket, generate_drug_graph))
    /\ UNCHANGED <<s, builderVars, identityVars, drug_graph, answer, uploaded>>

\* schedule_interval=None: a run starts when the DAG is triggered, with the
\* first task; the bucket is as the runs before left it.
TriggerRun ==
    /\ pc \in {"idle", "success", "failed"}
    /\ pc' = clinical_trials_cleaning.task_id
    /\ UNCHANGED <<s, builderVars, identityVars, drug_graph, answer, pipelineVars>>

\* -------------------------------------------------- SpecPipeline

MaxPipelineRows == 1

RawKeys == {"clinical_trials.csv", "pubmed.csv", "pubmed.json", "drugs.csv"}

PipelineRows(title_column) ==
    {(title_column :> t[1]) @@ [id |-> <<"1">>, date |-> t[2], journal |-> <<"J">>] :
        t \in {<<<<"a">>, <<"2022-01-01">>>>,
               <<<<"b">>, <<"2022-01-01">>>>,
               <<<<"a">>, <<"unknown">>>>}}

\* A pubmed.json that json.loads rejects, as with a trailing comma.
InvalidJson == [kind |-> "invalid"]

PubmedJson ==
    [kind |-> "json", columns |-> {"id", "title", "date", "journal"},
     rows |-> <<[id |-> <<"2">>, title |-> <<"a">>,
                 date |-> <<"2022-01-01">>, journal |-> <<"K">>]>>]

DrugsCsv ==
    [kind |-> "csv", columns |-> {"atccode", "drug"},
     rows |-> <<[atccode |-> <<"A04AD">>, drug |-> <<"a">>]>>]

\* The files that can stand at a raw source key.
SourceFiles(key) ==
    IF key = "clinical_trials.csv"
    THEN {RawCsv("scientific_title", rows) :
            rows \in SeqsUpTo(PipelineRows("scientific_title"), MaxPipelineRows)}
    ELSE IF key = "pubmed.csv"
    THEN {Absent} \cup
         {RawCsv("title", rows) : rows \in SeqsUpTo(PipelineRows("title"), MaxPipelineRows)}
    ELSE IF key = "pubmed.json" THEN {InvalidJson, PubmedJson}
    ELSE {DrugsCsv}

\* A bucket that holds the raw sources and nothing else; no run yet.
InitPipeline ==
    /\ pc = "idle"
    /\ \E trials \in SourceFiles("clinical_trials.csv") :
          \E csv \in SourceFiles("pubmed.csv") :
             \E json \in SourceFiles("pubmed.json") :
                bucket = [k \in BucketKeys |->
                            IF k = "clinical_trials.csv" THEN trials
                            ELSE IF k = "pubmed.csv" THEN csv
                            ELSE IF k = "pubmed.json" THEN json
                            ELSE IF k = "drugs.csv" THEN DrugsCsv
                            ELSE Absent]
    /\ last = NoTask
    /\ uploaded = FALSE
    /\ drug_graph = <<>>
    /\ answer = NotCalled
    /\ NoSeries
    /\ NoTables
    /\ NoFrames

\* Between two runs a raw source file is replaced in the bucket (once); the
\* DAG then waits for its next trigger.
UploadSource ==
    /\ pc \in {"success", "failed"}
    /\ ~uploaded
    /\ \E key \in RawKeys :
          \E file \in SourceFiles(key) :
             /\ file # bucket[key]
             /\ bucket' = [bucket EXCEPT ![key] = file]
    /\ uploaded' = TRUE
    /\ pc' = "idle"
    /\ UNCHANGED <<s, builderVars, identityVars, drug_graph, answer, last>>

NextPipeline ==
    \/ TriggerRun
    \/ ClinicalTrialsCleaning
    \/ PubmedMerging
    \/ PubmedCleaning
    \/ GenerateDrugGraph
    \/ UploadSource

SpecPipeline == InitPipeline /\ [][NextPipeline]_vars

\* The bucket with the raw sources of b and none of the artifacts of a run.
SourcesOnly(b) == [k \in BucketKeys |-> IF k \in RawKeys THEN b[k] ELSE Absent]

\* The four tasks in the order of the DAG, on a bucket; a task that raises
\* ends the run.
RunOn(b) ==
    LET t1 == CsvCleaningOperator_execute(b, clinical_trials_cleaning)
        t2 == FileMergeOperator_execute(t1.bucket, pubmed_merging)
        t3 == CsvCleaningOperator_execute(t2.bucket, pubmed_cleaning)
        t4 == GenerateDrugGraphOperator_execute(t3.bucket, generate_drug_graph)
    IN  IF t1.status = "raised" \/ t3.status = "raised" THEN Raised
        ELSE IF t4.data.status = "raised" THEN Raised
        ELSE Returned(t4.data.value)

\* C6: after each run that completes, drug_graph.json is the graph built from
\* the tables merged and cleaned from the raw source files as they are at
\* that run, whatever the runs before left in the bucket.
C6_GraphRebuiltOnEachRun ==
    (pc = "success" /\ RunOn(SourcesOnly(bucket)).status = "returned")
        => bucket["drug_graph.json"] = json_dumps(RunOn(SourcesOnly(bucket)).value)

\* The rows a source of the merge gives: the rows of its table as loaded, or
\* none when the load fails.
RowsLoaded(b, source) ==
    read_from_bucket_and_load_to_dataframe(b, source[1], source[2]).rows

LoadFails(b, source) ==
    read_from_bucket_and_load_to_dataframe(b, source[1], source[2]) = EmptyFrame

MergingRan == last.task_id = pubmed_merging.task_id

WriteKeys == {"DP_pubmed.csv", "drug_graph.json"}

WriteFrames ==
    {Frame({"id", "title", "date", "journal"}, rows) :
        rows \in {<<>>,
                  <<[id |-> <<"1">>, title |-> <<"a">>,
                     date |-> <<"2022-01-01">>, journal |-> <<"J">>]>>}}

WriteDicts ==
    {<<>>, <<[key |-> <<"A04AD">>, pubmed |-> <<>>, clinical_trials |-> <<>>]>>}

\* What can stand at a key before a call.
StoredFiles == {Absent} \cup {to_csv(f) : f \in WriteFrames} \cup {json_dumps(d) : d \in WriteDicts}

InitWrite ==
    /\ pc = "start"
    /\ \E stored \in [WriteKeys -> StoredFiles] :
          bucket = [k \in BucketKeys |-> IF k \in WriteKeys THEN stored[k] ELSE Absent]
    /\ last = NoTask
    /\ uploaded = FALSE
    /\ drug_graph = <<>>
    /\ answer = NotCalled
    /\ NoSeries
    /\ NoTables
    /\ NoFrames

\* A call of a writer: what it was given, whether it returned or raised, and
\* the bucket before it.
AfterWrite(writer, key, overwrite, content, written) ==
    /\ bucket' = written.bucket
    /\ last' = [task_id |-> writer, status |-> written.status, key |-> key,
                overwrite |-> overwrite, content |-> content, before |-> bucket]
    /\ pc' = "written"
    /\ UNCHANGED <<s, builderVars, identityVars, drug_graph, answer, uploaded>>

WriteDataframe ==
    /\ pc \in {"start", "written"}
    /\ \E key \in WriteKeys, dataframe \in WriteFrames, overwrite \in BOOLEAN :
          AfterWrite("write_dataframe_to_bucket", key, overwrite, to_csv(dataframe),
                     write_dataframe_to_bucket(bucket, key, dataframe, overwrite))

WriteDict ==
    /\ pc \in {"start", "written"}
    /\ \E key \in WriteKeys, data_dict \in WriteDicts, overwrite \in BOOLEAN :
          AfterWrite("write_dict_to_bucket_json", key, overwrite, json_dumps(data_dict),
                     write_dict_to_bucket_json(bucket, key, data_dict, overwrite))

NextWrite ==
    \/ WriteDataframe
    \/ WriteDict

SpecWrite == InitWrite /\ [][NextWrite]_vars

WriterCalled ==
    last.task_id \in {"write_dataframe_to_bucket", "write_dict_to_bucket_json"}

\* C12: a call of write_dataframe_to_bucket or write_dict_to_bucket_json on
\* a key that exists, without overwrite, returns and leaves every key as it
\* was; a call on a key that does not exist, or with overwrite, leaves the
\* new content at the key.
C12_WriteContract ==
    WriterCalled =>
        LET file_exists == check_for_key(last.before, last.key)
        IN  /\ (file_exists /\ ~last.overwrite)
                  => last.status = "returned" /\ bucket = last.before
            /\ (~file_exists \/ last.overwrite)
                  => bucket[last.key] = last.content

\* ------------------------------------------------------ SpecText

MaxTextLen == 6

\* The letters of the texts: a space, and the letters of an escape artifact
\* such as \xcc.
TextLetters == {" ", "\\", "x", "c"}

\* A Series of one value: a text, or a missing value.
InitText ==
    /\ pc = "start"
    /\ \E v \in SeqsUpTo(TextLetters, MaxTextLen) \cup {NaN} : s = <<v>>
    /\ answer = NotCalled
    /\ drug_graph = <<>>
    /\ NoTables
    /\ NoFrames
    /\ NoBucket

\* clean_text_column(s)
CleanText ==
    /\ pc = "start"
    /\ answer' = Returned([i \in 1..Len(s) |-> clean_text_column(s[i])])
    /\ pc' = "cleaned"
    /\ UNCHANGED <<s, builderVars, identityVars, drug_graph, pipelineVars>>

NextText == CleanText

SpecText == InitText /\ [][NextText]_vars

IsSpace(c) == c = " "

\* C13: every value clean_text_column returns neither starts nor ends with a
\* whitespace character, whatever the text given (escape artifacts next to
\* spaces included), and a missing value gives the empty string.
C13_CleanedTextIsStripped ==
    pc = "cleaned" =>
        \A i \in 1..Len(s) :
            LET cleaned == answer.value[i]
            IN  /\ cleaned # <<>> =>
                      ~IsSpace(cleaned[1]) /\ ~IsSpace(cleaned[Len(cleaned)])
                /\ isna(s[i]) => cleaned = <<>>

\* ------------------------------------------------------ SpecGenerate

CleanedColumns == {"id", "title", "date", "journal"}

CleanedRow(title) ==
    [id |-> <<"1">>, title |-> title, date |-> <<"2022-01-01">>, journal |-> <<"J">>]

\* A table without its date column.
Dateless ==
    [kind |-> "csv", columns |-> CleanedColumns \ {"date"},
     rows |-> <<[id |-> <<"1">>, title |-> <<"a">>, journal |-> <<"J">>]>>]

\* What can stand at the key of a cleaned table: nothing, a table without
\* its date column, a table whose titles are all missing, and cleaned tables.
CleanedFiles ==
    {Absent, Dateless}
        \cup {to_csv(Frame(CleanedColumns, rows)) :
                 rows \in {<<>>, <<CleanedRow(NaN)>>, <<CleanedRow(<<"a">>)>>,
                           <<CleanedRow(<<"b">>)>>}}

\* The graph of an earlier run.
OldGraph == json_dumps(<<[key |-> <<"R01AD">>, pubmed |-> <<>>, clinical_trials |-> <<>>]>>)

InitGenerate ==
    /\ pc = generate_drug_graph.task_id
    /\ \E drugs \in {Absent, DrugsCsv}, trials \in CleanedFiles, pubmed \in CleanedFiles,
          graph \in {Absent, OldGraph} :
          bucket = [k \in BucketKeys |->
                      IF k = generate_drug_graph.file_keys.drug THEN drugs
                      ELSE IF k = generate_drug_graph.file_keys.clinical_trials THEN trials
                      ELSE IF k = generate_drug_graph.file_keys.pubmed THEN pubmed
                      ELSE IF k = generate_drug_graph.destination_key THEN graph
                      ELSE Absent]
    /\ last = NoTask
    /\ uploaded = FALSE
    /\ drug_graph = <<>>
    /\ answer = NotCalled
    /\ NoSeries
    /\ NoTables
    /\ NoFrames

NextGenerate == GenerateDrugGraph

SpecGenerate == InitGenerate /\ [][NextGenerate]_vars

GenerateRan == last.task_id = generate_drug_graph.task_id

\* A cleaned table of the bucket cannot be loaded or has no date column.
TableUnusable(b, key) ==
    LET table == read_from_bucket_and_load_to_dataframe(b, key, "csv")
    IN  table = EmptyFrame \/ "date" \notin table.columns

\* A step of execute before the write fails on the bucket.
GenerateFails(b) ==
    LET keys == generate_drug_graph.file_keys
    IN  \/ TableUnusable(b, keys.clinical_trials)
        \/ TableUnusable(b, keys.pubmed)
        \/ create_drug_graph(
               read_from_bucket_and_load_to_dataframe(b, keys.drug, "csv").rows,
               read_from_bucket_and_load_to_dataframe(b, keys.pubmed, "csv").rows,
               read_from_bucket_and_load_to_dataframe(b, keys.clinical_trials, "csv").rows
           ).status = "raised"

\* C15: GenerateDrugGraphOperator.execute always returns; when a cleaned
\* table cannot be loaded or lacks its date column, or create_drug_graph
\* raises, the object at the destination key is what it was before the call.
C15_FailureLeavesGraphArtifact ==
    GenerateRan =>
        /\ last.status = "returned"
        /\ pc = "success"
        /\ GenerateFails(last.before) =>
              bucket[generate_drug_graph.destination_key]
                  = last.before[generate_drug_graph.destination_key]

\* execute ran on tables that load, create_drug_graph raised on a title
\* column of missing values only, and the graph of the earlier run is still
\* at the destination key.
C15_Witness ==
    /\ GenerateRan
    /\ ~TableUnusable(last.before, generate_drug_graph.file_keys.clinical_trials)
    /\ ~TableUnusable(last.before, generate_drug_graph.file_keys.pubmed)
    /\ GenerateFails(last.before)
    /\ last.status = "returned"
    /\ bucket[generate_drug_graph.destination_key] = OldGraph

====
